---- MODULE Spec2Model ----
(***************************************************************************)
(* Model of the RAG handler (rag_handler.py) and of the way its two front  *)
(* ends drive the one process-wide instance `rag_handler`:                 *)
(*   - text_chunks_store, the in-memory list of chunk texts;                *)
(*   - index, the remote Pinecone index (id -> metadata text), which lives *)
(*     outside the process and survives a restart;                         *)
(*   - add_document and get_answer, run by request contexts that share the *)
(*     handler (Streamlit runs one script thread per session, app.py).     *)
(* A text is a sequence of one-character strings.  Embedding vectors are   *)
(* opaque to every property below and are left out of the index records.   *)
(***************************************************************************)
EXTENDS Integers, Sequences, FiniteSets, TLC

\* ---------------------------------------------------------------- bounds
MaxCorpus == 3
MaxRestarts == 1
MaxCalls == 3

\* ------------------------------------------------- configuration (config.py)
\* read from the environment (os.getenv); a deployment with a small chunk
\* size, 0 < overlap < size, and a small top_k
CHUNK_SIZE == 2
CHUNK_OVERLAP == 1
TOP_K_RESULTS == 2

Workers == {"s1", "s2"}
Whitespace == {" ", "\n"}

\* the extracted texts handed to add_document: empty, whitespace only,
\* one chunk, two chunks
Texts == {<<>>, <<" ", "\n">>, <<"a">>, <<"a", "b">>}

Min(a, b) == IF a < b THEN a ELSE b

\* ------------------------------------------------------------- chunk_text
\* `not text or not text.strip()`
IsBlank(text) == Len(text) = 0 \/ \A i \in 1..Len(text) : text[i] \in Whitespace

\* a slice bound as Python normalises it: negative counts from the end,
\* then clamped into 0..len
SliceBound(len, b) ==
    IF b < 0 THEN (IF b + len < 0 THEN 0 ELSE b + len)
    ELSE Min(b, len)

\* text[start:end], 0-based, end exclusive
Slice(text, start, end) ==
    SubSeq(text, SliceBound(Len(text), start) + 1, SliceBound(Len(text), end))

\* the while loop of chunk_text, from cursor `start` on
RECURSIVE ChunkLoop(_, _, _, _)
ChunkLoop(text, start, chunk_size, chunk_overlap) ==
    IF start < Len(text)
    THEN <<Slice(text, start, start + chunk_size)>>
         \o ChunkLoop(text, start + chunk_size - chunk_overlap,
                      chunk_size, chunk_overlap)
    ELSE <<>>

\* mutant: the blank test only looks at emptiness (drops `not text.strip()`)
chunk_text_NoStrip(text, chunk_size, chunk_overlap) ==
    IF Len(text) = 0 THEN <<>>
    ELSE ChunkLoop(text, 0,
                   IF chunk_size = 0 THEN CHUNK_SIZE ELSE chunk_size,
                   IF chunk_overlap = 0 THEN CHUNK_OVERLAP ELSE chunk_overlap)

\* mutant: chunks shorter than the chunk size are dropped
chunk_text_DropsShort(text, chunk_size, chunk_overlap) ==
    IF IsBlank(text) THEN <<>>
    ELSE SelectSeq(
           ChunkLoop(text, 0,
                     IF chunk_size = 0 THEN CHUNK_SIZE ELSE chunk_size,
                     IF chunk_overlap = 0 THEN CHUNK_OVERLAP ELSE chunk_overlap),
           LAMBDA c : Len(c) = (IF chunk_size = 0 THEN CHUNK_SIZE ELSE chunk_size))

\* chunk_text(text, chunk_size, chunk_overlap); 0 stands for both None and 0,
\* which `x or self.x` treats alike
chunk_text(text, chunk_size, chunk_overlap) ==
    IF IsBlank(text) THEN <<>>
    ELSE ChunkLoop(text, 0,
                   IF chunk_size = 0 THEN CHUNK_SIZE ELSE chunk_size,
                   IF chunk_overlap = 0 THEN CHUNK_OVERLAP ELSE chunk_overlap)

\* ------------------------------------------------------------------ state
VARIABLES
    text_chunks_store,  \* RAGHandler.text_chunks_store
    index,              \* remote index: set of [id, text] records, one per id
    pc,                 \* per request context: position in its operation
    op,                 \* "none" | "add_document" | "get_answer"
    text,               \* argument of add_document
    image,              \* get_answer: image_b64 and image_mime_type both given
    new_chunks,         \* add_document local
    vectors_to_upsert,  \* add_document local
    applied,            \* records of the upsert batch the service has applied
    search_results,     \* get_answer local: matches of index.query
    relevant_chunks,    \* get_answer local
    content,            \* get_answer local: the user turn
    result,             \* what the operation handed to its caller
    calls,              \* external calls made by the current invocation
    sumReturned,        \* sum of the counts add_document returned
    addFailed,          \* some add_document raised
    restarts,           \* process restarts so far
    invocations,        \* operations called so far
    endpoint,           \* main.py: the endpoint a request context serves
    response,           \* main.py: the HTTP status the endpoint answered
    ck_pc,              \* chunk_text on its own: position in the function
    ck_text,            \* chunk_text: text
    arg_size,           \* chunk_text: chunk_size as passed (0 is None or 0)
    arg_overlap,        \* chunk_text: chunk_overlap as passed
    ck_size,            \* chunk_text: chunk_size after line 108
    ck_overlap,         \* chunk_text: chunk_overlap after line 109
    ck_start,           \* chunk_text: start
    ck_chunks,          \* chunk_text: chunks
    ck_starts           \* the value of start at each append

vars == <<text_chunks_store, index, pc, op, text, image, new_chunks,
          vectors_to_upsert, applied, search_results, relevant_chunks,
          content, result, calls, sumReturned, addFailed, restarts,
          invocations, endpoint, response, ck_pc, ck_text, arg_size,
          arg_overlap, ck_size, ck_overlap, ck_start, ck_chunks, ck_starts>>

locals == <<text, image, new_chunks, vectors_to_upsert, applied,
            search_results, relevant_chunks, content>>
history == <<sumReturned, addFailed, restarts>>
frontend == <<endpoint, response>>
chunker == <<ck_pc, ck_text, arg_size, arg_overlap, ck_size, ck_overlap,
             ck_start, ck_chunks, ck_starts>>
handler == <<text_chunks_store, index, pc, op, locals, result, calls, history,
             invocations>>

NoResult == [kind |-> "none", count |-> 0, msg |-> "", context_chunks |-> <<>>]
NoContent == [context |-> <<>>, image |-> FALSE]

Returned(n) == [kind |-> "count", count |-> n, msg |-> "", context_chunks |-> <<>>]
Raised(m) == [kind |-> "raise", count |-> 0, msg |-> m, context_chunks |-> <<>>]
ErrorDict(m) == [kind |-> "error", count |-> 0, msg |-> m, context_chunks |-> <<>>]
AnswerDict(cs) == [kind |-> "answer", count |-> 0, msg |-> "", context_chunks |-> cs]

NoText == <<"<no metadata text>">>

\* entries found in an index that already existed under the configured name:
\* ids that are not chunk ids, no text in the metadata
ForeignRecords == {[id |-> -1, text |-> NoText], [id |-> -2, text |-> NoText]}

\* the state after `rag_handler = RAGHandler()`: the index is created empty,
\* or one that exists already is connected to
HandlerInit ==
    /\ text_chunks_store = <<>>
    /\ index \in {{}, ForeignRecords}
    /\ pc = [w \in Workers |-> "idle"]
    /\ op = [w \in Workers |-> "none"]
    /\ text = [w \in Workers |-> <<>>]
    /\ image = [w \in Workers |-> FALSE]
    /\ new_chunks = [w \in Workers |-> <<>>]
    /\ vectors_to_upsert = [w \in Workers |-> <<>>]
    /\ applied = [w \in Workers |-> 0]
    /\ search_results = [w \in Workers |-> <<>>]
    /\ relevant_chunks = [w \in Workers |-> <<>>]
    /\ content = [w \in Workers |-> NoContent]
    /\ result = [w \in Workers |-> NoResult]
    /\ calls = [w \in Workers |-> <<>>]
    /\ sumReturned = 0
    /\ addFailed = FALSE
    /\ restarts = 0
    /\ invocations = 0
    /\ endpoint = [w \in Workers |-> "none"]
    /\ response = [w \in Workers |-> "none"]

\* no stand-alone chunk_text call
ChunkerIdle ==
    /\ ck_pc = "idle"
    /\ ck_text = <<>>
    /\ arg_size = 0
    /\ arg_overlap = 0
    /\ ck_size = 0
    /\ ck_overlap = 0
    /\ ck_start = 0
    /\ ck_chunks = <<>>
    /\ ck_starts = <<>>

Init == HandlerInit /\ ChunkerIdle

\* ------------------------------------------------------------ the index
IndexIds == {r.id : r \in index}
IndexCount == Cardinality(index)

\* index.upsert of one record: insert, or overwrite the record with that id
UpsertRecord(idx, v) == {r \in idx : r.id # v.id} \cup {v}

\* index.query(top_k = k): the k nearest records, fewer when fewer exist;
\* the ranking is the service's, any order of any k distinct records
Rankings(idx, k) ==
    LET n == Min(k, Cardinality(idx))
    IN  {s \in [1..n -> idx] : \A i, j \in 1..n : i # j => s[i] # s[j]}

\* ----------------------------------------------------------- add_document
\* lines 134-141: call, chunk_text, `if not new_chunks: return 0`
AddDocument(w, t) ==
    /\ pc[w] = "idle"
    /\ invocations < MaxCalls
    /\ invocations' = invocations + 1
    /\ Len(text_chunks_store) + Len(chunk_text(t, 0, 0)) <= MaxCorpus
    /\ op' = [op EXCEPT ![w] = "add_document"]
    /\ text' = [text EXCEPT ![w] = t]
    /\ new_chunks' = [new_chunks EXCEPT ![w] = chunk_text(t, 0, 0)]
    /\ calls' = [calls EXCEPT ![w] = <<>>]
    /\ IF chunk_text(t, 0, 0) = <<>>
       THEN /\ pc' = [pc EXCEPT ![w] = "done"]
            /\ result' = [result EXCEPT ![w] = Returned(0)]
       ELSE /\ pc' = [pc EXCEPT ![w] = "add_embed"]
            /\ result' = [result EXCEPT ![w] = NoResult]
    /\ UNCHANGED <<text_chunks_store, index, image, vectors_to_upsert, applied,
                   search_results, relevant_chunks, content, history, chunker>>

\* lines 146-152: embeddings.create returns
AddEmbedOk(w) ==
    /\ pc[w] = "add_embed"
    /\ calls' = [calls EXCEPT ![w] = Append(@, "embed")]
    /\ vectors_to_upsert' = [vectors_to_upsert EXCEPT ![w] = <<>>]
    /\ pc' = [pc EXCEPT ![w] = "add_ids"]
    /\ UNCHANGED <<text_chunks_store, index, op, text, image, new_chunks,
                   applied, search_results, relevant_chunks, content, result, history>>
    /\ UNCHANGED <<invocations, frontend, chunker>>

\* mutant: the failure handler commits the chunks before re-raising
AddEmbedFail_Commits(w) ==
    /\ pc[w] = "add_embed"
    /\ calls' = [calls EXCEPT ![w] = Append(@, "embed")]
    /\ text_chunks_store' = text_chunks_store \o new_chunks[w]
    /\ result' = [result EXCEPT ![w] = Raised("embedding")]
    /\ addFailed' = TRUE
    /\ pc' = [pc EXCEPT ![w] = "done"]
    /\ UNCHANGED <<index, op, locals, sumReturned, restarts>>
    /\ UNCHANGED <<invocations, frontend, chunker>>

\* lines 146-149, 174-179: embeddings.create raises, add_document re-raises
AddEmbedFail(w) ==
    /\ pc[w] = "add_embed"
    /\ calls' = [calls EXCEPT ![w] = Append(@, "embed")]
    /\ result' = [result EXCEPT ![w] = Raised("embedding")]
    /\ addFailed' = TRUE
    /\ pc' = [pc EXCEPT ![w] = "done"]
    /\ UNCHANGED <<text_chunks_store, index, op, locals, sumReturned, restarts>>
    /\ UNCHANGED <<invocations, frontend, chunker>>

\* lines 156-162: one iteration of the loop that builds vectors_to_upsert;
\* len(self.text_chunks_store) is read in every iteration
AddPrepareVector(w) ==
    /\ pc[w] = "add_ids"
    /\ LET i == Len(vectors_to_upsert[w])
       IN  IF i < Len(new_chunks[w])
           THEN /\ vectors_to_upsert' = [vectors_to_upsert EXCEPT ![w] =
                      Append(@, [id |-> Len(text_chunks_store) + i,
                                 text |-> new_chunks[w][i + 1]])]
                /\ pc' = pc
           ELSE /\ pc' = [pc EXCEPT ![w] = "add_upsert"]
                /\ UNCHANGED vectors_to_upsert
    /\ UNCHANGED <<text_chunks_store, index, op, text, image, new_chunks,
                   applied, search_results, relevant_chunks, content, result, calls, history>>
    /\ UNCHANGED <<invocations, frontend, chunker>>

\* line 166: the upsert request leaves the process
AddUpsertSend(w) ==
    /\ pc[w] = "add_upsert"
    /\ calls' = [calls EXCEPT ![w] = Append(@, "upsert")]
    /\ applied' = [applied EXCEPT ![w] = 0]
    /\ pc' = [pc EXCEPT ![w] = "add_upserting"]
    /\ UNCHANGED <<text_chunks_store, index, op, text, image, new_chunks,
                   vectors_to_upsert, search_results, relevant_chunks, content, result, history>>
    /\ UNCHANGED <<invocations, frontend, chunker>>

\* the service applies the next record of the batch
UpsertApply(w) ==
    /\ pc[w] = "add_upserting"
    /\ applied[w] < Len(vectors_to_upsert[w])
    /\ index' = UpsertRecord(index, vectors_to_upsert[w][applied[w] + 1])
    /\ applied' = [applied EXCEPT ![w] = @ + 1]
    /\ UNCHANGED <<text_chunks_store, pc, op, text, image, new_chunks,
                   vectors_to_upsert, search_results, relevant_chunks, content, result, calls,
                   history>>
    /\ UNCHANGED <<invocations, frontend, chunker>>

\* line 166: upsert returns
AddUpsertOk(w) ==
    /\ pc[w] = "add_upserting"
    /\ applied[w] = Len(vectors_to_upsert[w])
    /\ pc' = [pc EXCEPT ![w] = "add_extend"]
    /\ UNCHANGED <<text_chunks_store, index, op, locals, result, calls, history>>
    /\ UNCHANGED <<invocations, frontend, chunker>>

\* mutant: a failed upsert is sent again
AddUpsertFail_Retries(w) ==
    /\ pc[w] = "add_upserting"
    /\ pc' = [pc EXCEPT ![w] = "add_upsert"]
    /\ UNCHANGED <<text_chunks_store, index, op, locals, result, calls, history>>
    /\ UNCHANGED <<invocations, frontend, chunker>>

\* lines 166, 177-179: upsert raises, whatever part of the batch was applied
AddUpsertFail(w) ==
    /\ pc[w] = "add_upserting"
    /\ result' = [result EXCEPT ![w] = Raised("upsert")]
    /\ addFailed' = TRUE
    /\ pc' = [pc EXCEPT ![w] = "done"]
    /\ UNCHANGED <<text_chunks_store, index, op, locals, calls, sumReturned,
                   restarts>>
    /\ UNCHANGED <<invocations, frontend, chunker>>

\* lines 169-172: extend the store, return len(new_chunks)
AddExtend(w) ==
    /\ pc[w] = "add_extend"
    /\ text_chunks_store' = text_chunks_store \o new_chunks[w]
    /\ result' = [result EXCEPT ![w] = Returned(Len(new_chunks[w]))]
    /\ sumReturned' = sumReturned + Len(new_chunks[w])
    /\ pc' = [pc EXCEPT ![w] = "done"]
    /\ UNCHANGED <<index, op, locals, calls, addFailed, restarts>>
    /\ UNCHANGED <<invocations, frontend, chunker>>

\* ------------------------------------------------------------- get_answer
\* mutant: the matches are collected in reverse
RelevantChunks_Reversed(matches) ==
    LET kept == SelectSeq(matches, LAMBDA m : m.text # NoText)
    IN  [i \in 1..Len(kept) |-> kept[Len(kept) + 1 - i].text]

\* lines 218-222: the texts of the matches that carry metadata text, in order
RelevantChunks(matches) ==
    LET kept == SelectSeq(matches, LAMBDA m : m.text # NoText)
    IN  [i \in 1..Len(kept) |-> kept[i].text]

Separator == <<"\n", "\n", "-", "-", "-", "\n", "\n">>

\* line 228: "\n\n---\n\n".join(chunks)
RECURSIVE JoinChunks(_)
JoinChunks(chunks) ==
    IF Len(chunks) = 0 THEN <<>>
    ELSE IF Len(chunks) = 1 THEN chunks[1]
    ELSE chunks[1] \o Separator \o JoinChunks(Tail(chunks))

\* mutant: the empty-corpus check is missing
GetAnswer_NoCheck(w, img) ==
    /\ pc[w] = "idle"
    /\ invocations < MaxCalls
    /\ invocations' = invocations + 1
    /\ op' = [op EXCEPT ![w] = "get_answer"]
    /\ image' = [image EXCEPT ![w] = img]
    /\ calls' = [calls EXCEPT ![w] = <<>>]
    /\ pc' = [pc EXCEPT ![w] = "ga_embed"]
    /\ result' = [result EXCEPT ![w] = NoResult]
    /\ UNCHANGED <<text_chunks_store, index, text, new_chunks,
                   vectors_to_upsert, applied, search_results, relevant_chunks,
                   content, history, chunker>>

\* lines 193-197: call, `if len(self.text_chunks_store) == 0: return {error}`
GetAnswer(w, img) ==
    /\ pc[w] = "idle"
    /\ invocations < MaxCalls
    /\ invocations' = invocations + 1
    /\ op' = [op EXCEPT ![w] = "get_answer"]
    /\ image' = [image EXCEPT ![w] = img]
    /\ calls' = [calls EXCEPT ![w] = <<>>]
    /\ IF Len(text_chunks_store) = 0
       THEN /\ pc' = [pc EXCEPT ![w] = "done"]
            /\ result' = [result EXCEPT ![w] = ErrorDict("no documents")]
       ELSE /\ pc' = [pc EXCEPT ![w] = "ga_embed"]
            /\ result' = [result EXCEPT ![w] = NoResult]
    /\ UNCHANGED <<text_chunks_store, index, text, new_chunks,
                   vectors_to_upsert, applied, search_results, relevant_chunks,
                   content, history, chunker>>

\* lines 203-207: the question is embedded
GaEmbedOk(w) ==
    /\ pc[w] = "ga_embed"
    /\ calls' = [calls EXCEPT ![w] = Append(@, "embed")]
    /\ pc' = [pc EXCEPT ![w] = "ga_query"]
    /\ UNCHANGED <<text_chunks_store, index, op, locals, result, history>>
    /\ UNCHANGED <<invocations, frontend, chunker>>

\* lines 203-206, 286-297: embeddings.create raises, caught
GaEmbedFail(w) ==
    /\ pc[w] = "ga_embed"
    /\ calls' = [calls EXCEPT ![w] = Append(@, "embed")]
    /\ result' = [result EXCEPT ![w] = ErrorDict("embedding")]
    /\ pc' = [pc EXCEPT ![w] = "done"]
    /\ UNCHANGED <<text_chunks_store, index, op, locals, history>>
    /\ UNCHANGED <<invocations, frontend, chunker>>

\* mutant: the `if not relevant_chunks` check is missing
GaQueryOk_NoEmptyCheck(w, ms) ==
    /\ pc[w] = "ga_query"
    /\ calls' = [calls EXCEPT ![w] = Append(@, "query")]
    /\ search_results' = [search_results EXCEPT ![w] = ms]
    /\ relevant_chunks' = [relevant_chunks EXCEPT ![w] = RelevantChunks(ms)]
    /\ content' = [content EXCEPT ![w] =
          [context |-> JoinChunks(RelevantChunks(ms)), image |-> image[w]]]
    /\ pc' = [pc EXCEPT ![w] = "ga_complete"]
    /\ UNCHANGED <<text_chunks_store, index, op, text, image, new_chunks,
                   vectors_to_upsert, applied, result, history>>
    /\ UNCHANGED <<invocations, frontend, chunker>>

\* lines 211-257: index.query returns `ms`; relevant chunks, context, content
GaQueryOk(w, ms) ==
    /\ pc[w] = "ga_query"
    /\ calls' = [calls EXCEPT ![w] = Append(@, "query")]
    /\ search_results' = [search_results EXCEPT ![w] = ms]
    /\ relevant_chunks' = [relevant_chunks EXCEPT ![w] = RelevantChunks(ms)]
    /\ IF RelevantChunks(ms) = <<>>
       THEN /\ result' = [result EXCEPT ![w] = ErrorDict("no relevant")]
            /\ pc' = [pc EXCEPT ![w] = "done"]
            /\ UNCHANGED content
       ELSE /\ content' = [content EXCEPT ![w] =
                  [context |-> JoinChunks(RelevantChunks(ms)),
                   image |-> image[w]]]
            /\ pc' = [pc EXCEPT ![w] = "ga_complete"]
            /\ UNCHANGED result
    /\ UNCHANGED <<text_chunks_store, index, op, text, image, new_chunks,
                   vectors_to_upsert, applied, history>>
    /\ UNCHANGED <<invocations, frontend, chunker>>

\* mutant: the handler of a failed query drops the in-memory store
GaQueryFail_Clears(w) ==
    /\ pc[w] = "ga_query"
    /\ calls' = [calls EXCEPT ![w] = Append(@, "query")]
    /\ result' = [result EXCEPT ![w] = ErrorDict("index")]
    /\ text_chunks_store' = <<>>
    /\ pc' = [pc EXCEPT ![w] = "done"]
    /\ UNCHANGED <<index, op, locals, history>>
    /\ UNCHANGED <<invocations, frontend, chunker>>

\* lines 211-215, 294-297: index.query raises, caught
GaQueryFail(w) ==
    /\ pc[w] = "ga_query"
    /\ calls' = [calls EXCEPT ![w] = Append(@, "query")]
    /\ result' = [result EXCEPT ![w] = ErrorDict("index")]
    /\ pc' = [pc EXCEPT ![w] = "done"]
    /\ UNCHANGED <<text_chunks_store, index, op, locals, history>>
    /\ UNCHANGED <<invocations, frontend, chunker>>

\* lines 261-284: the completion returns, the answer dict is returned
GaCompleteOk(w) ==
    /\ pc[w] = "ga_complete"
    /\ calls' = [calls EXCEPT ![w] = Append(@, "complete")]
    /\ result' = [result EXCEPT ![w] = AnswerDict(relevant_chunks[w])]
    /\ pc' = [pc EXCEPT ![w] = "done"]
    /\ UNCHANGED <<text_chunks_store, index, op, locals, history>>
    /\ UNCHANGED <<invocations, frontend, chunker>>

\* mutant: the handler re-raises instead of returning {error}
GaCompleteFail_Raises(w) ==
    /\ pc[w] = "ga_complete"
    /\ calls' = [calls EXCEPT ![w] = Append(@, "complete")]
    /\ result' = [result EXCEPT ![w] = Raised("completion")]
    /\ pc' = [pc EXCEPT ![w] = "done"]
    /\ UNCHANGED <<text_chunks_store, index, op, locals, history>>
    /\ UNCHANGED <<invocations, frontend, chunker>>

\* lines 261-275, 286-297: the completion raises, caught
GaCompleteFail(w) ==
    /\ pc[w] = "ga_complete"
    /\ calls' = [calls EXCEPT ![w] = Append(@, "complete")]
    /\ result' = [result EXCEPT ![w] = ErrorDict("completion")]
    /\ pc' = [pc EXCEPT ![w] = "done"]
    /\ UNCHANGED <<text_chunks_store, index, op, locals, history>>
    /\ UNCHANGED <<invocations, frontend, chunker>>

\* ------------------------------------------------------------- the callers
\* the caller has its result; the request context is free again
Return(w) ==
    /\ pc[w] = "done"
    /\ pc' = [pc EXCEPT ![w] = "idle"]
    /\ op' = [op EXCEPT ![w] = "none"]
    /\ text' = [text EXCEPT ![w] = <<>>]
    /\ image' = [image EXCEPT ![w] = FALSE]
    /\ new_chunks' = [new_chunks EXCEPT ![w] = <<>>]
    /\ vectors_to_upsert' = [vectors_to_upsert EXCEPT ![w] = <<>>]
    /\ applied' = [applied EXCEPT ![w] = 0]
    /\ search_results' = [search_results EXCEPT ![w] = <<>>]
    /\ relevant_chunks' = [relevant_chunks EXCEPT ![w] = <<>>]
    /\ content' = [content EXCEPT ![w] = NoContent]
    /\ result' = [result EXCEPT ![w] = NoResult]
    /\ calls' = [calls EXCEPT ![w] = <<>>]
    /\ UNCHANGED <<text_chunks_store, index, history>>
    /\ UNCHANGED <<invocations, frontend, chunker>>

\* the process is restarted between requests: the module-level handler is
\* built again with an empty text_chunks_store, the remote index is kept
Restart ==
    /\ \A w \in Workers : pc[w] = "idle"
    /\ restarts < MaxRestarts
    /\ restarts' = restarts + 1
    /\ text_chunks_store' = <<>>
    /\ UNCHANGED <<index, pc, op, locals, result, calls, sumReturned, addFailed,
                   invocations, frontend, chunker>>

Next ==
    \/ \E w \in Workers, t \in Texts : AddDocument(w, t) /\ UNCHANGED frontend
    \/ \E w \in Workers : AddEmbedOk(w)
    \/ \E w \in Workers : AddEmbedFail(w)
    \/ \E w \in Workers : AddPrepareVector(w)
    \/ \E w \in Workers : AddUpsertSend(w)
    \/ \E w \in Workers : UpsertApply(w)
    \/ \E w \in Workers : AddUpsertOk(w)
    \/ \E w \in Workers : AddUpsertFail(w)
    \/ \E w \in Workers : AddExtend(w)
    \/ \E w \in Workers, img \in BOOLEAN :
          GetAnswer(w, img) /\ UNCHANGED frontend
    \/ \E w \in Workers : GaEmbedOk(w)
    \/ \E w \in Workers : GaEmbedFail(w)
    \/ \E w \in Workers, ms \in Rankings(index, TOP_K_RESULTS) : GaQueryOk(w, ms)
    \/ \E w \in Workers : GaQueryFail(w)
    \/ \E w \in Workers : GaCompleteOk(w)
    \/ \E w \in Workers : GaCompleteFail(w)
    \/ \E w \in Workers : Return(w)
    \/ Restart

Spec == Init /\ [][Next]_vars

\* ------------------------------------------------ the FastAPI application
\* main.py serves every request on one event loop; upload_document calls
\* add_document without awaiting and get_answer never awaits, so a request
\* runs from its call into the handler to its response before the next one.
AllIdle == \A w \in Workers : pc[w] = "idle"

\* str.isspace(): non-empty and whitespace only
IsSpace(t) == Len(t) > 0 /\ \A i \in 1..Len(t) : t[i] \in Whitespace

\* main.py lines 143-151: the blank check, then handler.add_document(text)
UploadDocument(w, t) ==
    /\ AllIdle
    /\ endpoint' = [endpoint EXCEPT ![w] = "upload"]
    /\ IF Len(t) = 0 \/ IsSpace(t)
       THEN /\ invocations < MaxCalls
            /\ invocations' = invocations + 1
            /\ response' = [response EXCEPT ![w] = "400 no text"]
            /\ pc' = [pc EXCEPT ![w] = "responded"]
            /\ UNCHANGED <<text_chunks_store, index, op, locals, result, calls,
                           history, chunker>>
       ELSE /\ AddDocument(w, t)
            /\ UNCHANGED response

\* main.py lines 151-173: the response to what add_document did
UploadRespond(w) ==
    /\ pc[w] = "done"
    /\ endpoint[w] = "upload"
    /\ response' = [response EXCEPT ![w] =
          IF result[w].kind = "raise" THEN "500"
          ELSE IF result[w].count = 0 THEN "400 too short"
          ELSE "200"]
    /\ pc' = [pc EXCEPT ![w] = "responded"]
    /\ UNCHANGED <<text_chunks_store, index, op, locals, result, calls, history,
                   invocations, endpoint, chunker>>

\* main.py lines 208-230: the corpus check, then handler.get_answer(...)
QueryDocument(w, img) ==
    /\ AllIdle
    /\ endpoint' = [endpoint EXCEPT ![w] = "query"]
    /\ IF Len(text_chunks_store) = 0
       THEN /\ invocations < MaxCalls
            /\ invocations' = invocations + 1
            /\ response' = [response EXCEPT ![w] = "400 no documents"]
            /\ pc' = [pc EXCEPT ![w] = "responded"]
            /\ UNCHANGED <<text_chunks_store, index, op, locals, result, calls,
                           history, chunker>>
       ELSE /\ GetAnswer(w, img)
            /\ UNCHANGED response

\* main.py lines 232-251: the response to what get_answer returned
QueryRespond(w) ==
    /\ pc[w] = "done"
    /\ endpoint[w] = "query"
    /\ response' = [response EXCEPT ![w] =
          IF result[w].kind = "error" THEN "400 error" ELSE "200"]
    /\ pc' = [pc EXCEPT ![w] = "responded"]
    /\ UNCHANGED <<text_chunks_store, index, op, locals, result, calls, history,
                   invocations, endpoint, chunker>>

\* the response is sent; the request is over
EndpointReturn(w) ==
    /\ pc[w] = "responded"
    /\ pc' = [pc EXCEPT ![w] = "idle"]
    /\ op' = [op EXCEPT ![w] = "none"]
    /\ text' = [text EXCEPT ![w] = <<>>]
    /\ image' = [image EXCEPT ![w] = FALSE]
    /\ new_chunks' = [new_chunks EXCEPT ![w] = <<>>]
    /\ vectors_to_upsert' = [vectors_to_upsert EXCEPT ![w] = <<>>]
    /\ applied' = [applied EXCEPT ![w] = 0]
    /\ search_results' = [search_results EXCEPT ![w] = <<>>]
    /\ relevant_chunks' = [relevant_chunks EXCEPT ![w] = <<>>]
    /\ content' = [content EXCEPT ![w] = NoContent]
    /\ result' = [result EXCEPT ![w] = NoResult]
    /\ calls' = [calls EXCEPT ![w] = <<>>]
    /\ endpoint' = [endpoint EXCEPT ![w] = "none"]
    /\ response' = [response EXCEPT ![w] = "none"]
    /\ UNCHANGED <<text_chunks_store, index, history, invocations, chunker>>

NextMain ==
    \/ \E w \in Workers, t \in Texts : UploadDocument(w, t)
    \/ \E w \in Workers : UploadRespond(w)
    \/ \E w \in Workers, img \in BOOLEAN : QueryDocument(w, img)
    \/ \E w \in Workers : QueryRespond(w)
    \/ \E w \in Workers : EndpointReturn(w)
    \/ \E w \in Workers : AddEmbedOk(w)
    \/ \E w \in Workers : AddEmbedFail(w)
    \/ \E w \in Workers : AddPrepareVector(w)
    \/ \E w \in Workers : AddUpsertSend(w)
    \/ \E w \in Workers : UpsertApply(w)
    \/ \E w \in Workers : AddUpsertOk(w)
    \/ \E w \in Workers : AddUpsertFail(w)
    \/ \E w \in Workers : AddExtend(w)
    \/ \E w \in Workers : GaEmbedOk(w)
    \/ \E w \in Workers : GaEmbedFail(w)
    \/ \E w \in Workers, ms \in Rankings(index, TOP_K_RESULTS) : GaQueryOk(w, ms)
    \/ \E w \in Workers : GaQueryFail(w)
    \/ \E w \in Workers : GaCompleteOk(w)
    \/ \E w \in Workers : GaCompleteFail(w)
    \/ Restart

SpecMain == Init /\ [][NextMain]_vars

\* ------------------------------------------- chunk_text called on its own
MaxChunkTextLen == 4
MaxArg == 3
MaxSpin == 2

Letters == <<"a", "b", "c", "d", "e", "f", "g", "h">>

\* texts for chunk_text: letters all different, plus empty and whitespace only
ChunkTexts ==
    {SubSeq(Letters, 1, n) : n \in 1..MaxChunkTextLen}
        \cup {<<>>, <<" ", "\n">>}

\* the text of the 2400-character scenario
ScenarioText == [i \in 1..2400 |-> "x"]

InitChunk ==
    /\ HandlerInit
    /\ ck_pc = "call"
    /\ \/ /\ ck_text \in ChunkTexts
          /\ arg_size \in -1..MaxArg
          /\ arg_overlap \in -1..MaxArg
       \/ /\ ck_text = ScenarioText
          /\ arg_size = 1000
          /\ arg_overlap = 200
    /\ ck_size = 0
    /\ ck_overlap = 0
    /\ ck_start = 0
    /\ ck_chunks = <<>>
    /\ ck_starts = <<>>

\* lines 104-112: the blank test, the defaults, chunks = [], start = 0
ChunkTextCall ==
    /\ ck_pc = "call"
    /\ IF IsBlank(ck_text)
       THEN /\ ck_pc' = "returned"
            /\ UNCHANGED <<ck_size, ck_overlap>>
       ELSE /\ ck_pc' = "loop"
            /\ ck_size' = IF arg_size = 0 THEN CHUNK_SIZE ELSE arg_size
            /\ ck_overlap' = IF arg_overlap = 0 THEN CHUNK_OVERLAP
                             ELSE arg_overlap
    /\ ck_start' = 0
    /\ ck_chunks' = <<>>
    /\ ck_starts' = <<>>
    /\ UNCHANGED <<ck_text, arg_size, arg_overlap, handler, frontend>>

\* mutant: the cursor advances by size plus overlap
ChunkTextStep_AddsOverlap ==
    /\ ck_pc = "loop"
    /\ ck_start < Len(ck_text)
    /\ Len(ck_chunks) < Len(ck_text) + MaxSpin
    /\ ck_chunks' = Append(ck_chunks, Slice(ck_text, ck_start, ck_start + ck_size))
    /\ ck_starts' = Append(ck_starts, ck_start)
    /\ ck_start' = ck_start + ck_size + ck_overlap
    /\ UNCHANGED <<ck_pc, ck_text, arg_size, arg_overlap, ck_size, ck_overlap>>
    /\ UNCHANGED <<handler, frontend>>

\* mutant: the cursor advances by the size alone
ChunkTextStep_NoOverlap ==
    /\ ck_pc = "loop"
    /\ ck_start < Len(ck_text)
    /\ Len(ck_chunks) < Len(ck_text) + MaxSpin
    /\ ck_chunks' = Append(ck_chunks, Slice(ck_text, ck_start, ck_start + ck_size))
    /\ ck_starts' = Append(ck_starts, ck_start)
    /\ ck_start' = ck_start + ck_size
    /\ UNCHANGED <<ck_pc, ck_text, arg_size, arg_overlap, ck_size, ck_overlap>>
    /\ UNCHANGED <<handler, frontend>>

\* mutant: the slice ends one character late
ChunkTextStep_LongSlice ==
    /\ ck_pc = "loop"
    /\ ck_start < Len(ck_text)
    /\ Len(ck_chunks) < Len(ck_text) + MaxSpin
    /\ ck_chunks' = Append(ck_chunks,
                           Slice(ck_text, ck_start, ck_start + ck_size + 1))
    /\ ck_starts' = Append(ck_starts, ck_start)
    /\ ck_start' = ck_start + ck_size - ck_overlap
    /\ UNCHANGED <<ck_pc, ck_text, arg_size, arg_overlap, ck_size, ck_overlap>>
    /\ UNCHANGED <<handler, frontend>>

\* lines 114-117: one iteration of the while loop (a loop that does not end
\* is followed MaxSpin iterations past the length of the text)
ChunkTextStep ==
    /\ ck_pc = "loop"
    /\ ck_start < Len(ck_text)
    /\ Len(ck_chunks) < Len(ck_text) + MaxSpin
    /\ ck_chunks' = Append(ck_chunks, Slice(ck_text, ck_start, ck_start + ck_size))
    /\ ck_starts' = Append(ck_starts, ck_start)
    /\ ck_start' = ck_start + ck_size - ck_overlap
    /\ UNCHANGED <<ck_pc, ck_text, arg_size, arg_overlap, ck_size, ck_overlap>>
    /\ UNCHANGED <<handler, frontend>>

\* lines 114, 119-120: the loop condition fails, chunks is returned
ChunkTextReturn ==
    /\ ck_pc = "loop"
    /\ ck_start >= Len(ck_text)
    /\ ck_pc' = "returned"
    /\ UNCHANGED <<ck_text, arg_size, arg_overlap, ck_size, ck_overlap,
                   ck_start, ck_chunks, ck_starts, handler, frontend>>

NextChunk ==
    \/ ChunkTextCall
    \/ ChunkTextStep
    \/ ChunkTextReturn

SpecChunk == InitChunk /\ [][NextChunk]_vars

\* ================================================================ claims
InStoreMutation(w) ==
    pc[w] \in {"add_ids", "add_upsert", "add_upserting", "add_extend"}

\* the index holds nothing but what this program wrote
ForeignFree == \A r \in index : r.text # NoText

VectorIds(w) ==
    {vectors_to_upsert[w][i].id : i \in 1..Len(vectors_to_upsert[w])}

\* C1: once every add_document called so far has returned a count (none
\* raised, same process), the index holds as many entries as
\* text_chunks_store, and both equal the sum of the returned counts.
C1_CountConsistency ==
    ((\A w \in Workers : pc[w] \in {"idle", "done"})
        /\ ~addFailed /\ restarts = 0 /\ ForeignFree)
    => (IndexCount = Len(text_chunks_store)
        /\ Len(text_chunks_store) = sumReturned)

\* C2: a get_answer about to query the index, with add_document calls in
\* flight but none failed, sees index and corpus agree on the ids: the index
\* ids are exactly the positions of text_chunks_store.
C2_AddAtomicForQuery ==
    \A w \in Workers :
        (pc[w] = "ga_query" /\ ~addFailed /\ restarts = 0 /\ ForeignFree)
        => IndexIds = 0..(Len(text_chunks_store) - 1)

\* C3: two add_document calls that are both inside the store-mutation step
\* never hold the same vector id.
C3_AddsSerialized ==
    \A w1, w2 \in Workers :
        (w1 # w2 /\ InStoreMutation(w1) /\ InStoreMutation(w2))
        => VectorIds(w1) \cap VectorIds(w2) = {}

\* C4: when the embedding call of add_document fails, the call raises, no
\* upsert was sent and neither text_chunks_store nor the index is changed by
\* any step of the call.
C4_EmbedFailureNoMutation ==
    [][\A w \in Workers :
        /\ (pc[w] = "idle" /\ pc'[w] = "add_embed")
           => (text_chunks_store' = text_chunks_store /\ index' = index)
        /\ (pc[w] = "add_embed" /\ pc'[w] = "done")
           => /\ result'[w].kind = "raise"
              /\ calls'[w] = <<"embed">>
              /\ text_chunks_store' = text_chunks_store
              /\ index' = index]_vars

C4_Witness ==
    \E w \in Workers :
        /\ pc[w] = "done" /\ op[w] = "add_document"
        /\ result[w] = Raised("embedding")
        /\ Len(new_chunks[w]) > 0

\* C5: when the upsert of add_document fails, the call raises and the index
\* holds no entry of the failed call's batch.
C5_UpsertFailureConsistent ==
    \A w \in Workers :
        (pc[w] = "done" /\ op[w] = "add_document" /\ result[w].msg = "upsert")
        => /\ result[w].kind = "raise"
           /\ \A i \in 1..Len(vectors_to_upsert[w]) :
                 vectors_to_upsert[w][i] \notin index

\* C6: add_document with empty or whitespace-only text returns 0 at once,
\* having made no external call and changed neither store.
C6_BlankAddIsNoOp ==
    /\ [](\A w \in Workers :
            (op[w] = "add_document" /\ IsBlank(text[w]))
            => (pc[w] = "done" /\ result[w] = Returned(0) /\ calls[w] = <<>>))
    /\ [][\A w \in Workers :
            (pc[w] = "idle" /\ op'[w] = "add_document" /\ IsBlank(text'[w]))
            => (text_chunks_store' = text_chunks_store /\ index' = index)]_vars

C6_Witness ==
    \E w \in Workers :
        /\ op[w] = "add_document" /\ pc[w] = "done"
        /\ Len(text[w]) > 0 /\ IsBlank(text[w])
        /\ result[w] = Returned(0)

\* C7: get_answer called on an empty text_chunks_store returns {error} at
\* once, without an embedding call, an index query or a completion call.
C7_EmptyCorpusError ==
    [][\A w \in Workers :
        (pc[w] = "idle" /\ op'[w] = "get_answer" /\ Len(text_chunks_store) = 0)
        => (pc'[w] = "done" /\ result'[w].kind = "error" /\ calls'[w] = <<>>)]_vars

C7_Witness ==
    \E w \in Workers :
        /\ op[w] = "get_answer" /\ pc[w] = "done"
        /\ result[w] = ErrorDict("no documents") /\ calls[w] = <<>>

\* C8: get_answer hands its caller either the answer dict or an {error}
\* dict, whatever service failed; it never raises.
C8_TwoShapes ==
    \A w \in Workers :
        op[w] = "get_answer"
        => /\ result[w].kind # "raise"
           /\ pc[w] = "done" => result[w].kind \in {"answer", "error"}

C8_Witness ==
    \E w \in Workers :
        /\ op[w] = "get_answer" /\ pc[w] = "done"
        /\ calls[w] = <<"embed", "query", "complete">>
        /\ result[w] = ErrorDict("completion")

\* C9: when the index query of get_answer returns, the number of retrieved
\* chunks is min(top_k, len(text_chunks_store)).
C9_RetrievalBound ==
    [][\A w \in Workers :
        (pc[w] = "ga_query" /\ pc'[w] # "ga_query" /\ result'[w].msg # "index"
            /\ ForeignFree)
        => Len(relevant_chunks'[w])
             = Min(TOP_K_RESULTS, Len(text_chunks_store))]_vars

\* the texts the matches of the query carry, in the order of the matches
RECURSIVE TextsOf(_)
TextsOf(ms) ==
    IF Len(ms) = 0 THEN <<>>
    ELSE (IF ms[1].text = NoText THEN <<>> ELSE <<ms[1].text>>)
         \o TextsOf(Tail(ms))

MatchTexts(w) == TextsOf(search_results[w])

\* offset of chunk i in the joined context
RECURSIVE JoinOffset(_, _)
JoinOffset(chunks, i) ==
    IF i = 1 THEN 0
    ELSE JoinOffset(chunks, i - 1) + Len(chunks[i - 1]) + Len(Separator)

IsJoinOf(ctx, chunks) ==
    /\ Len(chunks) > 0
    /\ Len(ctx) = JoinOffset(chunks, Len(chunks)) + Len(chunks[Len(chunks)])
    /\ \A i \in 1..Len(chunks) :
          SubSeq(ctx, JoinOffset(chunks, i) + 1,
                 JoinOffset(chunks, i) + Len(chunks[i])) = chunks[i]
    /\ \A i \in 2..Len(chunks) :
          SubSeq(ctx, JoinOffset(chunks, i) - Len(Separator) + 1,
                 JoinOffset(chunks, i)) = Separator

\* C10: a successful get_answer returns as context_chunks the texts of the
\* query's matches, in the query's order, and the context of the user turn
\* is those texts joined by the separator in that order.
C10_ContextVerbatim ==
    \A w \in Workers :
        (op[w] = "get_answer" /\ result[w].kind = "answer")
        => /\ result[w].context_chunks = MatchTexts(w)
           /\ IsJoinOf(content[w].context, MatchTexts(w))

C10_Witness ==
    \E w \in Workers :
        /\ op[w] = "get_answer" /\ result[w].kind = "answer"
        /\ Len(result[w].context_chunks) = 2
        /\ result[w].context_chunks[1] # result[w].context_chunks[2]

\* --------------------------------------------------- claims on chunk_text
\* the passed (size, overlap) the specification calls valid
ValidArgs == arg_size > 0 /\ 0 <= arg_overlap /\ arg_overlap < arg_size

ChunkLens == [i \in 1..Len(ck_chunks) |-> Len(ck_chunks[i])]

\* 0-based position p of the text lies inside a returned chunk
Covered(p) ==
    \E i \in 1..Len(ck_chunks) :
        /\ ck_starts[i] <= p
        /\ p < ck_starts[i] + Len(ck_chunks[i])
        /\ ck_chunks[i][p - ck_starts[i] + 1] = ck_text[p + 1]

\* C11: when chunk_text returns for a non-blank text and valid (size,
\* overlap), every character position of the text lies inside a chunk.
C11_Coverage ==
    (ck_pc = "returned" /\ ~IsBlank(ck_text) /\ ValidArgs)
    => \A p \in 0..(Len(ck_text) - 1) : Covered(p)

C11_Witness ==
    /\ ck_pc = "returned" /\ ValidArgs
    /\ Len(ck_text) = MaxChunkTextLen
    /\ arg_overlap > 0
    /\ Len(ck_chunks) >= 2

IsScenarioA == ck_text = ScenarioText /\ arg_size = 1000 /\ arg_overlap = 200

\* C12 as stated: a text of 2400 characters with size 1000 and overlap 200
\* gives chunks of lengths [1000, 1000, 400] at offsets [0, 800, 1600].
C12_ScenarioA_Stated ==
    (IsScenarioA /\ ck_pc = "returned")
    => (ChunkLens = <<1000, 1000, 400>> /\ ck_starts = <<0, 800, 1600>>)

\* C12 amended: the chunks have lengths [1000, 1000, 800] at offsets
\* [0, 800, 1600].
C12_ScenarioA ==
    (IsScenarioA /\ ck_pc = "returned")
    => (ChunkLens = <<1000, 1000, 800>> /\ ck_starts = <<0, 800, 1600>>)

C12_Witness == IsScenarioA /\ ck_pc = "returned" /\ Len(ck_chunks) = 3

\* C13: chunk_text never enters its loop with size <= 0, overlap < 0 or
\* overlap >= size; such a configuration is rejected.
C13_InvalidConfigRejected ==
    ck_pc = "loop" => (ck_size > 0 /\ 0 <= ck_overlap /\ ck_overlap < ck_size)

\* the chunks a window of the passed size advancing by `step` produces
RECURSIVE WindowChunks(_, _, _, _)
WindowChunks(t, from, size, step) ==
    IF from < Len(t)
    THEN <<SubSeq(t, from + 1, Min(from + size, Len(t)))>>
         \o WindowChunks(t, from + step, size, step)
    ELSE <<>>

\* C15: for a non-blank text and valid passed (size, overlap), overlap = 0
\* included, the returned chunks are the windows text[i*(size-overlap) :
\* i*(size-overlap)+size].
C15_WindowByPassedArgs ==
    (ck_pc = "returned" /\ ~IsBlank(ck_text) /\ ValidArgs)
    => ck_chunks = WindowChunks(ck_text, 0, arg_size, arg_size - arg_overlap)

\* C16 as stated: every returned chunk is non-empty and at most size long,
\* and every chunk but the last is exactly size long.
C16_OnlyLastShort_Stated ==
    (ck_pc = "returned" /\ ~IsBlank(ck_text) /\ ValidArgs)
    => \A i \in 1..Len(ck_chunks) :
          /\ 1 <= Len(ck_chunks[i]) /\ Len(ck_chunks[i]) <= arg_size
          /\ i < Len(ck_chunks) => Len(ck_chunks[i]) = arg_size

\* C16 amended: every returned chunk is non-empty and at most size long, and
\* the chunks shorter than size are a trailing run of the result.
C16_ShortChunksTrail ==
    (ck_pc = "returned" /\ ~IsBlank(ck_text) /\ ValidArgs)
    => \A i \in 1..Len(ck_chunks) :
          /\ 1 <= Len(ck_chunks[i]) /\ Len(ck_chunks[i]) <= arg_size
          /\ Len(ck_chunks[i]) < arg_size
             => \A j \in i..Len(ck_chunks) : Len(ck_chunks[j]) < arg_size

C16_Witness ==
    /\ ck_pc = "returned" /\ ValidArgs /\ ~IsBlank(ck_text)
    /\ \E i \in 1..Len(ck_chunks) :
          i < Len(ck_chunks) /\ Len(ck_chunks[i]) < arg_size

\* ------------------------------------------ claims on ids and the endpoint
\* C14: an add_document whose predecessors all succeeded never writes an id
\* the remote index already holds, across restarts of the process too.
C14_IdsNeverReused ==
    [][\A w \in Workers :
        (applied'[w] = applied[w] + 1 /\ ~addFailed)
        => vectors_to_upsert[w][applied'[w]].id \notin IndexIds]_vars

\* C20: an upload whose text passed the blank check never gets the 'too
\* short' 400, and when add_document returns to it the count is at least 1.
C20_TooShortUnreachable ==
    \A w \in Workers :
        /\ response[w] # "400 too short"
        /\ (endpoint[w] = "upload" /\ result[w].kind = "count")
           => (result[w].count >= 1
               /\ Len(text_chunks_store) >= result[w].count)

C20_Witness ==
    \E w \in Workers :
        /\ endpoint[w] = "upload" /\ response[w] = "200"
        /\ Len(text[w]) = 1
        /\ result[w] = Returned(1)

\* ------------------------------------- claims on the calls and the stores
IsPrefix(a, b) == Len(a) <= Len(b) /\ a = SubSeq(b, 1, Len(a))

\* C17: one add_document makes at most one embedding call, then at most one
\* upsert; one get_answer at most one embedding call, then one index query,
\* then one completion call; a failed call ends the invocation.
C17_NoRetry ==
    \A w \in Workers :
        /\ op[w] = "add_document" => IsPrefix(calls[w], <<"embed", "upsert">>)
        /\ op[w] = "get_answer"
           => IsPrefix(calls[w], <<"embed", "query", "complete">>)
        /\ result[w].kind \in {"raise", "error"} => pc[w] = "done"

C17_Witness ==
    \E w \in Workers :
        /\ op[w] = "add_document" /\ pc[w] = "done"
        /\ result[w] = Raised("upsert")
        /\ calls[w] = <<"embed", "upsert">>

\* the request context whose operation took the step
Acting(w) ==
    \/ pc'[w] # pc[w]
    \/ applied'[w] # applied[w]
    \/ vectors_to_upsert'[w] # vectors_to_upsert[w]

\* C18: within one process, no step of get_answer changes text_chunks_store
\* or the index; every change is a step of an add_document, and
\* text_chunks_store only grows at its end.
C18_OnlyAddMutates ==
    [][restarts' = restarts =>
        /\ IsPrefix(text_chunks_store, text_chunks_store')
        /\ (text_chunks_store' # text_chunks_store \/ index' # index)
           => \E w \in Workers : Acting(w) /\ op[w] = "add_document"
        /\ \A w \in Workers :
              (Acting(w) /\ (op[w] = "get_answer" \/ op'[w] = "get_answer"))
              => (text_chunks_store' = text_chunks_store /\ index' = index)]_vars

C18_Witness ==
    \E w \in Workers :
        /\ op[w] = "get_answer" /\ pc[w] = "done"
        /\ result[w] = ErrorDict("index")
        /\ Len(text_chunks_store) > 0

\* C19: when the query returns no match that carries text, get_answer
\* returns {error} without calling the completion service; the completion
\* service is called only with a context built from at least one chunk.
C19_NoChunksNoCompletion ==
    \A w \in Workers :
        /\ (op[w] = "get_answer" /\ "query" \in {calls[w][i] : i \in 1..Len(calls[w])}
              /\ TextsOf(search_results[w]) = <<>>)
           => /\ pc[w] = "done"
              /\ result[w].kind = "error"
              /\ calls[w] = <<"embed", "query">>
        /\ "complete" \in {calls[w][i] : i \in 1..Len(calls[w])}
           => (Len(relevant_chunks[w]) >= 1 /\ Len(content[w].context) >= 1)

C19_Witness ==
    \E w \in Workers :
        /\ op[w] = "get_answer" /\ pc[w] = "done"
        /\ Len(search_results[w]) = TOP_K_RESULTS
        /\ result[w] = ErrorDict("no relevant")
        /\ Len(text_chunks_store) > 0

====
